---- MODULE Spec2Model ----
(***************************************************************************)
(* Model of SensorNode (src/SensorNode.py): the energy buffer of a        *)
(* battery-less LoRaWAN node.                                              *)
(*                                                                         *)
(* Energies are fixed-point integers, one unit = 1/Scale mJ, so that       *)
(* baseEnergy (27.54 mJ) and nodeConsumption (66.29 mJ) are exact.         *)
(* Instants are milliseconds after the constructor's lastSamplingTime     *)
(* (2016-04-06 21:26:27).  Python values are tagged records               *)
(*   [k |-> "time", v |-> ms]     a datetime                               *)
(*   [k |-> "num",  v |-> mdeg]   a float, in thousandths of a degree      *)
(* because the operators Python applies to a row element (datetime         *)
(* subtraction, comparison with a float) raise TypeError on the other      *)
(* kind.                                                                   *)
(***************************************************************************)
EXTENDS Integers, Sequences, FiniteSets, TLC

VARIABLES
    accEnergy,              \* self.accEnergy
    totalGeneratedEnergy,   \* self.totalGeneratedEnergy
    accEnergyPerSample,     \* self.accEnergyPerSample
    txPackets,              \* self.txPackets
    lastSamplingTime,       \* self.lastSamplingTime (a tagged value)
    pc,                     \* "idle" | "loop" (processData's for) | "tx" (transmitPacket's while)
    caller,                 \* who entered the while loop: "direct" | "processData"
    nRows,                  \* rows of tableData consumed by the running processData
    timeDeltaSeconds,       \* processData's local of that name
    ret,                    \* value returned by processData, 0 until it returns
    op,                     \* history: the last operation that completed
    prevTx,                 \* history: the operation before the last one was transmitPacket
    arg,                    \* history: the argument of the last operation
    pre,                    \* history: the fields when the last operation began
    outcome,                \* history: "ok" | "raised" for the last sample
    txIters,                \* history: iterations of the running / last while loop
    sumPackets              \* history: packets sent by the rows of this run that completed

vars == <<accEnergy, totalGeneratedEnergy, accEnergyPerSample, txPackets,
          lastSamplingTime, pc, caller, nRows, timeDeltaSeconds, ret,
          op, prevTx, arg, pre, outcome, txIters, sumPackets>>

-----------------------------------------------------------------------------
(* Units, program constants and bounds *)

Scale == 1700

baseEnergy == 46818

nodeConsumption == 112693

Cstore == 17

\* self.Ileakage = 0.002 mA, here in microampere
Ileakage == 2

DayThreshold == 86400

\* at most this many rows in one tableData
MaxRows == 2

\* updateEnergy is not called directly once this much energy was generated
MaxTotal == 700000

T(ms) == [k |-> "time", v |-> ms]

N(mdeg) == [k |-> "num", v |-> mdeg]

Times == {3600000, 86399500, 86400000}

DTs == {3000}

Energies == {baseEnergy + nodeConsumption, 3 * nodeConsumption}

LeakTimes == {21600, DayThreshold}

Rows == {<<T(t), N(d)>> : t \in Times, d \in DTs}
        \cup {<<N(d), T(t)>> : t \in Times, d \in DTs}
        \cup {<<T(a), T(b)>> : a \in Times, b \in Times}
        \cup {<<T(3600000)>>}

Fields == [accEnergy |-> accEnergy,
           totalGeneratedEnergy |-> totalGeneratedEnergy,
           accEnergyPerSample |-> accEnergyPerSample,
           txPackets |-> txPackets,
           lastSamplingTime |-> lastSamplingTime]

-----------------------------------------------------------------------------
(* Pure helpers *)

Max(a, b) == IF a >= b THEN a ELSE b

\* int(round(timeDelta.total_seconds())): round half to even, ms -> s
RoundSeconds(ms) ==
    LET s == ms \div 1000
        r == ms % 1000
    IN  IF r < 500 THEN s
        ELSE IF r > 500 THEN s + 1
        ELSE IF s % 2 = 0 THEN s ELSE s + 1

\* abs(0.0366*(dT**1.8830)) in 1/Scale mW, tabulated for the sampled dT
PowerFit(dT) ==
    CASE dT = 625   -> 26
      [] dT = 1000  -> 62
      [] dT = 3000  -> 492
      [] dT = 5000  -> 1289
      [] dT = 10000 -> 4753
      [] OTHER      -> (62 * dT) \div 1000

pmuModel(dT) == IF dT >= 625 THEN PowerFit(dT) ELSE 0

\* eLeakage = ((Ileakage*timeDelta)**2)/(2*Cstore), in 1/Scale mJ.
\* timeDelta**2 is split as (100q + r)**2 to stay within 32-bit integers.
eLeakage(timeDelta) ==
    LET LeakDiv == (2 * Cstore * 1000000) \div (Ileakage * Ileakage * Scale)
        q == timeDelta \div 100
        r == timeDelta % 100
    IN  (10000 \div LeakDiv) * q * q + (200 * q * r + r * r) \div LeakDiv

AfterLeakageNoClamp(acc, timeDelta) == acc - eLeakage(timeDelta)

\* the value updateLeakageEnergy leaves in accEnergy
AfterLeakage(acc, timeDelta) ==
    LET a == acc - eLeakage(timeDelta)
    IN  IF a <= 0 THEN 0 ELSE a

checkThresholdsStrict == (accEnergy - baseEnergy - nodeConsumption) > 0

checkThresholdsNoBase == (accEnergy - nodeConsumption) >= 0

checkThresholds == (accEnergy - baseEnergy - nodeConsumption) >= 0

-----------------------------------------------------------------------------
Init ==
    /\ accEnergy = 0
    /\ totalGeneratedEnergy = 0
    /\ accEnergyPerSample = 0
    /\ txPackets = 0
    /\ lastSamplingTime = T(0)
    /\ pc = "idle"
    /\ caller = "direct"
    /\ nRows = 0
    /\ timeDeltaSeconds = 0
    /\ ret = 0
    /\ op = "init"
    /\ prevTx = FALSE
    /\ arg = <<>>
    /\ pre = [accEnergy |-> 0, totalGeneratedEnergy |-> 0, accEnergyPerSample |-> 0,
              txPackets |-> 0, lastSamplingTime |-> T(0)]
    /\ outcome = "ok"
    /\ txIters = 0
    /\ sumPackets = 0

\* history bookkeeping of an operation that runs in one step
Done(name, a) ==
    /\ op' = name
    /\ prevTx' = (op = "transmitPacket")
    /\ arg' = a
    /\ pre' = Fields
    /\ ret' = 0
    /\ UNCHANGED <<outcome, txIters, sumPackets>>

resetSystemResetsClock ==
    /\ pc = "idle"
    /\ txPackets' = 0
    /\ accEnergy' = 0
    /\ accEnergyPerSample' = 0
    /\ totalGeneratedEnergy' = 0
    /\ lastSamplingTime' = T(0)
    /\ Done("resetSystem", <<>>)
    /\ UNCHANGED <<pc, caller, nRows, timeDeltaSeconds>>

resetSystem ==
    /\ pc = "idle"
    /\ txPackets' = 0
    /\ accEnergy' = 0
    /\ accEnergyPerSample' = 0
    /\ totalGeneratedEnergy' = 0
    /\ Done("resetSystem", <<>>)
    /\ UNCHANGED <<lastSamplingTime, pc, caller, nRows, timeDeltaSeconds>>

updateEnergy(energy) ==
    /\ pc = "idle"
    /\ totalGeneratedEnergy + energy <= MaxTotal
    /\ accEnergy' = accEnergy + energy
    /\ totalGeneratedEnergy' = totalGeneratedEnergy + energy
    /\ accEnergyPerSample' = accEnergyPerSample + energy
    /\ Done("updateEnergy", <<energy>>)
    /\ UNCHANGED <<txPackets, lastSamplingTime, pc, caller, nRows,
                   timeDeltaSeconds>>

updateLeakageEnergy(timeDelta) ==
    /\ pc = "idle"
    /\ accEnergy' = AfterLeakage(accEnergy, timeDelta)
    /\ Done("updateLeakageEnergy", <<timeDelta>>)
    /\ UNCHANGED <<totalGeneratedEnergy, accEnergyPerSample, txPackets,
                   lastSamplingTime, pc, caller, nRows, timeDeltaSeconds>>

\* a direct call of transmitPacket enters the while loop
transmitPacket ==
    /\ pc = "idle"
    /\ pc' = "tx"
    /\ caller' = "direct"
    /\ prevTx' = (op = "transmitPacket")
    /\ op' = "transmitPacket"
    /\ arg' = <<>>
    /\ pre' = Fields
    /\ txIters' = 0
    /\ ret' = 0
    /\ UNCHANGED <<accEnergy, totalGeneratedEnergy, accEnergyPerSample, txPackets,
                   lastSamplingTime, nRows, timeDeltaSeconds, outcome,
                   sumPackets>>

\* one iteration of while(self.checkThresholds())
TransmitIter ==
    /\ pc = "tx"
    /\ checkThresholds
    /\ txPackets' = txPackets + 1
    /\ accEnergy' = accEnergy - nodeConsumption
    /\ txIters' = txIters + 1
    /\ UNCHANGED <<totalGeneratedEnergy, accEnergyPerSample, lastSamplingTime,
                   pc, caller, nRows, timeDeltaSeconds, ret,
                   op, prevTx, arg, pre, outcome, sumPackets>>

\* the while condition is false: transmitPacket returns to its caller
TransmitExit ==
    /\ pc = "tx"
    /\ ~checkThresholds
    /\ IF caller = "processData"
       THEN /\ pc' = "loop"
            /\ outcome' = "ok"
            /\ sumPackets' = sumPackets + txPackets
       ELSE /\ pc' = "idle"
            /\ UNCHANGED <<outcome, sumPackets>>
    /\ UNCHANGED <<accEnergy, totalGeneratedEnergy, accEnergyPerSample, txPackets,
                   lastSamplingTime, caller, nRows, timeDeltaSeconds, ret,
                   op, prevTx, arg, pre, txIters>>

\* processData(tableData) is called; the rows are drawn as the loop consumes them
processData ==
    /\ pc = "idle"
    /\ pc' = "loop"
    /\ caller' = "processData"
    /\ nRows' = 0
    /\ sumPackets' = 0
    /\ prevTx' = (op = "transmitPacket")
    /\ op' = "processData"
    /\ arg' = <<>>
    /\ pre' = Fields
    /\ ret' = 0
    /\ outcome' = "ok"
    /\ txIters' = 0
    /\ UNCHANGED <<accEnergy, totalGeneratedEnergy, accEnergyPerSample, txPackets,
                   lastSamplingTime, timeDeltaSeconds>>

\* the body of the try block for one row, up to the call of transmitPacket
\* (line 122 needs row[1] to be a datetime and line 131 needs it to be a number,
\* so with datetime and float elements the last branch is never taken)
ProcessRow(row) ==
    /\ pc = "loop"
    /\ nRows < MaxRows
    /\ nRows' = nRows + 1
    /\ prevTx' = (op = "transmitPacket")
    /\ op' = "sample"
    /\ arg' = row
    /\ pre' = Fields
    /\ txIters' = 0
    /\ UNCHANGED <<caller, ret, sumPackets>>
    /\ IF ~(Len(row) >= 2 /\ row[2].k = "time" /\ lastSamplingTime.k = "time")
       THEN \* row[1] - self.lastSamplingTime, or .total_seconds(), raises
            /\ outcome' = "raised"
            /\ pc' = "loop"
            /\ UNCHANGED <<accEnergy, totalGeneratedEnergy, accEnergyPerSample,
                           txPackets, lastSamplingTime, timeDeltaSeconds>>
       ELSE LET delta == RoundSeconds(row[2].v - lastSamplingTime.v)
                start == IF delta >= DayThreshold THEN 0 ELSE accEnergy
            IN  /\ timeDeltaSeconds' = delta
                /\ lastSamplingTime' = row[1]
                /\ txPackets' = 0
                /\ IF row[2].k # "num"
                   THEN \* pmuModel(row[1]): dT >= 0.625 raises
                        /\ accEnergy' = start
                        /\ accEnergyPerSample' = 0
                        /\ outcome' = "raised"
                        /\ pc' = "loop"
                        /\ UNCHANGED totalGeneratedEnergy
                   ELSE LET energy == pmuModel(row[2].v) * delta
                        IN  /\ accEnergy' = AfterLeakage(start + energy, delta)
                            /\ totalGeneratedEnergy' = totalGeneratedEnergy + energy
                            /\ accEnergyPerSample' = energy
                            /\ pc' = "tx"
                            /\ UNCHANGED outcome

\* the for loop ends: return self.txPackets
ProcessReturn ==
    /\ pc = "loop"
    /\ pc' = "idle"
    /\ ret' = txPackets
    /\ timeDeltaSeconds' = 0
    /\ nRows' = 0
    /\ prevTx' = FALSE
    /\ op' = "return"
    /\ arg' = <<>>
    /\ UNCHANGED <<accEnergy, totalGeneratedEnergy, accEnergyPerSample, txPackets,
                   lastSamplingTime, caller, pre, outcome, txIters, sumPackets>>

Next ==
    \/ resetSystem
    \/ \E energy \in Energies : updateEnergy(energy)
    \/ \E timeDelta \in LeakTimes : updateLeakageEnergy(timeDelta)
    \/ transmitPacket
    \/ TransmitIter
    \/ TransmitExit
    \/ processData
    \/ \E row \in Rows : ProcessRow(row)
    \/ ProcessReturn

Spec == Init /\ [][Next]_vars

\* the interpreter runs the while loop to its end
FairSpec == Spec /\ WF_vars(TransmitIter \/ TransmitExit)

-----------------------------------------------------------------------------
(* Vocabulary of the properties *)

\* a row of the documented shape: row[0] a sampling time, row[1] a temperature difference
ValidSample(row) == Len(row) = 2 /\ row[1].k = "time" /\ row[2].k = "num"

\* the loop has just finished a row of the documented shape on a node whose clock is a datetime
SampleDone ==
    /\ pc = "loop"
    /\ op = "sample"
    /\ ValidSample(arg)
    /\ pre.lastSamplingTime.k = "time"

\* seconds between the previous sample and the timestamp of the row just finished
Elapsed == RoundSeconds(arg[1].v - pre.lastSamplingTime.v)

\* energy harvested over that interval at the row's temperature difference
Harvested == pmuModel(arg[2].v) * Elapsed

PacketsFor(e) ==
    IF e >= baseEnergy + nodeConsumption
    THEN (e - baseEnergy) \div nodeConsumption
    ELSE 0

JustTransmitted == pc = "idle" /\ op = "transmitPacket"

-----------------------------------------------------------------------------
\* C1: the value processData returns is the total number of packets
\* transmitted by the rows of the run that were processed successfully.
C1_ReturnsRunTotal == (pc = "idle" /\ op = "return") => ret = sumPackets

\* C2: for a sample (timestamp, dT) the elapsed time is the timestamp minus
\* the previous lastSamplingTime, and lastSamplingTime becomes the timestamp.
C2_ElapsedFromTimestamp ==
    SampleDone =>
        /\ lastSamplingTime = arg[1]
        /\ timeDeltaSeconds = Elapsed

\* C3: a sample that raises leaves every mutable field as it was before it.
C3_FailedSampleKeepsState ==
    (pc = "loop" /\ op = "sample" /\ outcome = "raised") => Fields = pre

\* C4: a sample that comes 86400 s or more after the previous one starts from
\* an empty buffer, so what it leaves depends on its own harvest only; an
\* earlier sample keeps the stored energy.
C4_GapResetsBuffer ==
    SampleDone =>
        LET start == IF Elapsed >= DayThreshold THEN 0 ELSE pre.accEnergy
            e == Max(0, start + Harvested - eLeakage(Elapsed))
        IN  accEnergy = e - PacketsFor(e) * nodeConsumption

\* C5: transmitPacket terminates, every iteration lowers accEnergy, on return
\* accEnergy - baseEnergy - nodeConsumption < 0, and a call that directly
\* follows another sends nothing and changes nothing.
C5_TransmitPacketTerminates ==
    /\ [](JustTransmitted =>
            /\ accEnergy - baseEnergy - nodeConsumption < 0
            /\ prevTx => (txIters = 0 /\ Fields = pre))
    /\ [][(pc = "tx" /\ pc' = "tx") => accEnergy' < accEnergy]_vars
    /\ ((pc = "tx") ~> (pc # "tx"))

C5_Witness ==
    /\ JustTransmitted
    /\ prevTx
    /\ txPackets >= 2
    /\ accEnergy > 0

\* C6: a sample processed from an empty buffer sends
\* floor((H - L - baseEnergy) / nodeConsumption) packets when H - L reaches
\* baseEnergy + nodeConsumption, none otherwise, and leaves max(0, H - L)
\* less the packets' cost.
C6_PacketsFromEmptyBuffer ==
    (SampleDone /\ pre.accEnergy = 0) =>
        LET e == Max(0, Harvested - eLeakage(Elapsed))
        IN  /\ txPackets = PacketsFor(e)
            /\ accEnergy = e - txPackets * nodeConsumption

\* C7: txPackets is incremented only where accEnergy - baseEnergy -
\* nodeConsumption >= 0, one packet's cost is taken each time, and the buffer
\* still holds baseEnergy afterwards; one call may send several packets.
C7_ThresholdGated ==
    [][txPackets' = txPackets + 1 =>
          /\ accEnergy - baseEnergy - nodeConsumption >= 0
          /\ accEnergy' = accEnergy - nodeConsumption
          /\ accEnergy' >= baseEnergy]_vars

C7_Witness == pc = "tx" /\ txIters >= 2 /\ txPackets >= 2

\* C8: accEnergy is never negative, and updateLeakageEnergy leaves the stored
\* energy less the leakage, or exactly 0 when the leakage is larger.
C8_NeverNegative ==
    /\ accEnergy >= 0
    /\ op = "updateLeakageEnergy" =>
          accEnergy = Max(0, pre.accEnergy - eLeakage(arg[1]))

C8_Witness ==
    /\ op = "updateLeakageEnergy"
    /\ pre.accEnergy > 0
    /\ eLeakage(arg[1]) > pre.accEnergy
    /\ accEnergy = 0

====
